---------------------------- MODULE Spec2Model ----------------------------
(***************************************************************************)
(* Model of main.py of lichess-study-visualiser: the MoveNode tree, the    *)
(* merge of PGN games into it (add_child, _add_pgn_nodes_to_tree,          *)
(* build_tree_from_pgn), find_first_divergence_node, prune_end_nodes and   *)
(* the breadth-first traversal of generate_tree_image.                     *)
(*                                                                         *)
(* MoveNode objects live in a heap: `nodes` is a sequence of records and a *)
(* reference to a MoveNode is its index.  Python's None is the index 0.    *)
(***************************************************************************)
EXTENDS Integers, Sequences, FiniteSets, TLC

\* ------------------------------------------------------------------ bounds
NumMoves == 2       \* number of distinct chess.Move values the parser yields
MaxGameNodes == 3   \* most move nodes (main line + variations) in one game
MaxGames == 2       \* most games in the PGN text

\* --------------------------------------------------------- chess library
None == 0

\* chess.Move: a from-square and a to-square.
Moves == {[from_square |-> f, to_square |-> f + 1] : f \in 1..NumMoves}

\* move.uci(): the text of a move, here the pair of its squares.
Uci(move) == <<move.from_square, move.to_square>>

Ucis == {Uci(m) : m \in Moves}

\* chess.Board: the stack of moves played from the initial position.
InitialBoard == <<>>

\* board.copy() followed by push(move).
Push(board, move) == Append(board, move)

\* board.fen(): the position reached.  It forgets the order in which the
\* moves were played, so different move orders may give the same FEN.
Fen(board) ==
    [u \in Ucis |-> Cardinality({i \in DOMAIN board : Uci(board[i]) = u})]

\* board.san(move): the notation of a move relative to a board.
San(board, move) == [ply |-> Len(board) + 1, uci |-> Uci(move)]

\* ---------------------------------------------------------------- MoveNode
EmptyDict == [u \in {} |-> None]

\* MoveNode.__init__
MoveNode(board, move, parent) ==
    [board    |-> board,
     move     |-> move,
     parent   |-> parent,
     children |-> EmptyDict,
     fen      |-> Fen(board)]

\* dict.values() of node.children in insertion order.  Keys are inserted in
\* the order their nodes are allocated and are never re-inserted, so the
\* insertion order is the order of the heap indices.
RECURSIVE SortedSeq(_)
SortedSeq(S) ==
    IF S = {} THEN <<>>
    ELSE LET m == CHOOSE x \in S : \A y \in S : x <= y
         IN <<m>> \o SortedSeq(S \ {m})

ChildValues(h, n) == SortedSeq({h[n].children[u] : u \in DOMAIN h[n].children})

\* dict.items() of node.children in insertion order.
ChildItems(h, n) ==
    LET vs == ChildValues(h, n)
    IN [i \in DOMAIN vs |->
          <<CHOOSE u \in DOMAIN h[n].children : h[n].children[u] = vs[i], vs[i]>>]

\* add_child that creates a node even when the key is present.
add_child_always_new(h, self, move) ==
    LET uci == Uci(move)
        new == Len(h) + 1
        board_after_move == Push(h[self].board, move)
    IN [heap |-> Append([h EXCEPT ![self].children = (uci :> new) @@ @],
                        MoveNode(board_after_move, move, self)),
        ret  |-> new]

\* add_child that does not hand itself to the new node as parent.
add_child_no_parent(h, self, move) ==
    LET uci == Uci(move)
    IN IF uci \notin DOMAIN h[self].children
       THEN LET new == Len(h) + 1
                board_after_move == Push(h[self].board, move)
            IN [heap |-> Append([h EXCEPT ![self].children = (uci :> new) @@ @],
                                MoveNode(board_after_move, move, None)),
                ret  |-> new]
       ELSE [heap |-> h, ret |-> h[self].children[uci]]

\* add_child that reuses a node of the same position wherever it is.
add_child_by_fen(h, self, move) ==
    LET uci == Uci(move)
        board_after_move == Push(h[self].board, move)
        same == {n \in DOMAIN h : h[n].fen = Fen(board_after_move)}
    IN IF uci \in DOMAIN h[self].children
       THEN [heap |-> h, ret |-> h[self].children[uci]]
       ELSE IF same # {}
       THEN LET n == CHOOSE n \in same : TRUE
            IN [heap |-> [h EXCEPT ![self].children = (uci :> n) @@ @], ret |-> n]
       ELSE LET new == Len(h) + 1
            IN [heap |-> Append([h EXCEPT ![self].children = (uci :> new) @@ @],
                                MoveNode(board_after_move, move, self)),
                ret  |-> new]

\* add_child that assigns a fresh dictionary instead of inserting a key.
add_child_replace_dict(h, self, move) ==
    LET uci == Uci(move)
    IN IF uci \notin DOMAIN h[self].children
       THEN LET new == Len(h) + 1
                board_after_move == Push(h[self].board, move)
            IN [heap |-> Append([h EXCEPT ![self].children = (uci :> new)],
                                MoveNode(board_after_move, move, self)),
                ret  |-> new]
       ELSE [heap |-> h, ret |-> h[self].children[uci]]

\* MoveNode.add_child: returns the heap after the call and the node returned.
add_child(h, self, move) ==
    LET uci == Uci(move)
    IN IF uci \notin DOMAIN h[self].children
       THEN LET new == Len(h) + 1
                board_after_move == Push(h[self].board, move)
            IN [heap |-> Append([h EXCEPT ![self].children = (uci :> new) @@ @],
                                MoveNode(board_after_move, move, self)),
                ret  |-> new]
       ELSE [heap |-> h, ret |-> h[self].children[uci]]

\* ------------------------------------------------------------- PGN parser
\* The variations lists a chess.pgn game node can carry: sequences of child
\* nodes, each with a move and its own variations, of at most n move nodes.
RECURSIVE Size(_)
Size(variations) ==
    IF variations = <<>> THEN 0
    ELSE 1 + Size(Head(variations).variations) + Size(Tail(variations))

RECURSIVE Variations(_)
Variations(n) ==
    IF n = 0 THEN {<<>>}
    ELSE {<<>>} \cup
         UNION {UNION {{<<[move |-> m, variations |-> sub]>> \o rest :
                           rest \in Variations(n - 1 - Size(sub))} :
                       sub \in Variations(n - 1)} :
                m \in Moves}

\* chess.pgn.read_game: the games the parser can hand over.
PgnGames == {[move |-> None, variations |-> v] : v \in Variations(MaxGameNodes)}

\* _add_pgn_nodes_to_tree, from the i-th variation of pgn_node on.
RECURSIVE add_pgn_nodes_from(_, _, _, _)
add_pgn_nodes_from(h, current_treenode, pgn_node, i) ==
    IF i > Len(pgn_node.variations) THEN h
    ELSE LET variation == pgn_node.variations[i]
             added == add_child(h, current_treenode, variation.move)
             below == add_pgn_nodes_from(added.heap, added.ret, variation, 1)
         IN add_pgn_nodes_from(below, current_treenode, pgn_node, i + 1)

\* _add_pgn_nodes_to_tree
add_pgn_nodes_to_tree(h, current_treenode, pgn_node) ==
    add_pgn_nodes_from(h, current_treenode, pgn_node, 1)

\* The move paths (sequences of UCI keys) of a game: one for every move node.
RECURSIVE PathsBelow(_, _)
PathsBelow(prefix, variations) ==
    UNION {LET p == Append(prefix, Uci(variations[i].move))
           IN {p} \cup PathsBelow(p, variations[i].variations) :
           i \in DOMAIN variations}

GamePaths(game) == PathsBelow(<<>>, game.variations)

\* ------------------------------------------------ find_first_divergence_node
\* The walk with the loop condition "has a child" instead of "has one child".
RECURSIVE DivergenceWalk_any_child(_, _)
DivergenceWalk_any_child(h, current_node) ==
    IF Cardinality(DOMAIN h[current_node].children) >= 1
    THEN <<current_node>> \o DivergenceWalk_any_child(h, ChildValues(h, current_node)[1])
    ELSE <<current_node>>

\* The nodes current_node takes, in order; the last one is returned.
RECURSIVE DivergenceWalk(_, _)
DivergenceWalk(h, current_node) ==
    IF Cardinality(DOMAIN h[current_node].children) = 1
    THEN <<current_node>> \o DivergenceWalk(h, ChildValues(h, current_node)[1])
    ELSE <<current_node>>

find_first_divergence_node(h, root_node) ==
    LET walk == DivergenceWalk(h, root_node) IN walk[Len(walk)]

\* ------------------------------------------------------------ prune_end_nodes
\* The check without the test that the node has exactly one child.
PruneCheck_any_count(h, node) ==
    IF Cardinality(DOMAIN h[node].children) >= 1
    THEN LET child == ChildValues(h, node)[1]
         IN IF DOMAIN h[child].children = {}
            THEN [h EXCEPT ![node].children = EmptyDict]
            ELSE h
    ELSE h

\* The check with the test on the child's children inverted.
PruneCheck_inverted(h, node) ==
    IF Cardinality(DOMAIN h[node].children) = 1
    THEN LET child == ChildValues(h, node)[1]
         IN IF DOMAIN h[child].children # {}
            THEN [h EXCEPT ![node].children = EmptyDict]
            ELSE h
    ELSE h

\* The post-recursion check of prune_end_nodes.
PruneCheck(h, node) ==
    IF Cardinality(DOMAIN h[node].children) = 1
    THEN LET child == ChildValues(h, node)[1]
         IN IF DOMAIN h[child].children = {}
            THEN [h EXCEPT ![node].children = EmptyDict]
            ELSE h
    ELSE h

\* prune_end_nodes that checks the node before it recurses into the children.
RECURSIVE prune_from_preorder(_, _, _, _)
prune_from_preorder(h, node, children_to_process, i) ==
    IF i > Len(children_to_process) THEN h
    ELSE LET checked == IF i = 1 THEN PruneCheck(h, node) ELSE h
             child == children_to_process[i]
             pruned == prune_from_preorder(checked, child, ChildValues(checked, child), 1)
         IN prune_from_preorder(pruned, node, children_to_process, i + 1)

\* prune_end_nodes that does not recurse into the children.
prune_from_no_recursion(h, node, children_to_process, i) == PruneCheck(h, node)

\* prune_end_nodes, from the i-th entry of children_to_process on.
RECURSIVE prune_from(_, _, _, _)
prune_from(h, node, children_to_process, i) ==
    IF i > Len(children_to_process) THEN PruneCheck(h, node)
    ELSE LET child == children_to_process[i]
             pruned == prune_from(h, child, ChildValues(h, child), 1)
         IN prune_from(pruned, node, children_to_process, i + 1)

prune_end_nodes(h, node) == prune_from(h, node, ChildValues(h, node), 1)

\* --------------------------------------------------------- generate_tree_image
\* The loop without the test on processed_fens.
RECURSIVE RenderLoop_no_skip(_, _, _)
RenderLoop_no_skip(h, queue, dot) ==
    IF queue = <<>> THEN dot
    ELSE LET current_node == Head(queue)
             items == ChildItems(h, current_node)
             edges == {<<h[current_node].fen, h[items[i][2]].fen,
                         San(h[current_node].board, h[items[i][2]].move)>> :
                       i \in DOMAIN items}
         IN RenderLoop_no_skip(h,
               Tail(queue) \o [i \in DOMAIN items |-> items[i][2]],
               [processed_fens |-> dot.processed_fens \cup {h[current_node].fen},
                expanded |-> Append(dot.expanded, current_node),
                nodes |-> dot.nodes \cup {h[current_node].fen},
                edges |-> dot.edges \cup edges])

\* The while loop over the queue: what has been drawn so far is in `dot`.
RECURSIVE RenderLoop(_, _, _)
RenderLoop(h, queue, dot) ==
    IF queue = <<>> THEN dot
    ELSE LET current_node == Head(queue)
         IN IF h[current_node].fen \in dot.processed_fens
            THEN RenderLoop(h, Tail(queue), dot)
            ELSE LET items == ChildItems(h, current_node)
                     edges == {<<h[current_node].fen, h[items[i][2]].fen,
                                 San(h[current_node].board, h[items[i][2]].move)>> :
                               i \in DOMAIN items}
                 IN RenderLoop(h,
                       Tail(queue) \o [i \in DOMAIN items |-> items[i][2]],
                       [processed_fens |-> dot.processed_fens \cup {h[current_node].fen},
                        expanded |-> Append(dot.expanded, current_node),
                        nodes |-> dot.nodes \cup {h[current_node].fen},
                        edges |-> dot.edges \cup edges])

generate_tree_image(h, root_node) ==
    RenderLoop(h, <<root_node>>,
               [processed_fens |-> {}, expanded |-> <<>>, nodes |-> {}, edges |-> {}])

\* -------------------------------------------------------------- reachability
Children(h, n) == {h[n].children[u] : u \in DOMAIN h[n].children}

RECURSIVE Closure(_, _)
Closure(h, S) ==
    LET T == S \cup UNION {Children(h, n) : n \in S}
    IN IF T = S THEN S ELSE Closure(h, T)

\* The nodes reachable from n through children mappings, n included.
Reachable(h, n) == Closure(h, {n})

\* ---------------------------------------------------------------- the state
VARIABLES
    nodes,      \* the heap of MoveNode objects
    root,       \* the root MoveNode build_tree_from_pgn creates and returns
    phase,      \* "build" while games are read, "pruned" once pruning began
    games,      \* number of games read so far
    ingested,   \* the move paths of the games read so far
    last,       \* the last call: its name and its argument
    old,        \* the heap when the last call was entered
    ret         \* what the last call returned or drew

vars == <<nodes, root, phase, games, ingested, last, old, ret>>

\* build_tree_from_pgn, up to the loop: a root node for the initial board.
Init ==
    /\ nodes = <<MoveNode(InitialBoard, None, None)>>
    /\ root = 1
    /\ phase = "build"
    /\ games = 0
    /\ ingested = {}
    /\ last = [op |-> "init", arg |-> None]
    /\ old = nodes
    /\ ret = None

\* One turn of the loop of build_tree_from_pgn: a game is read and merged.
Ingest(game) ==
    /\ phase = "build"
    /\ games < MaxGames
    /\ nodes' = add_pgn_nodes_to_tree(nodes, root, game)
    /\ games' = games + 1
    /\ ingested' = ingested \cup GamePaths(game)
    /\ last' = [op |-> "ingest", arg |-> game]
    /\ old' = nodes
    /\ ret' = None
    /\ UNCHANGED <<root, phase>>

\* find_first_divergence_node(root)
Locate ==
    /\ ret' = find_first_divergence_node(nodes, root)
    /\ last' = [op |-> "find", arg |-> root]
    /\ old' = nodes
    /\ UNCHANGED <<nodes, root, phase, games, ingested>>

\* prune_end_nodes(node) on a node of the tree
Prune(node) ==
    /\ nodes' = prune_end_nodes(nodes, node)
    /\ phase' = "pruned"
    /\ last' = [op |-> "prune", arg |-> node]
    /\ old' = nodes
    /\ ret' = None
    /\ UNCHANGED <<root, games, ingested>>

\* generate_tree_image(node) on a node of the tree
Render(node) ==
    /\ ret' = generate_tree_image(nodes, node)
    /\ last' = [op |-> "render", arg |-> node]
    /\ old' = nodes
    /\ UNCHANGED <<nodes, root, phase, games, ingested>>

Next ==
    \/ \E game \in PgnGames : Ingest(game)
    \/ Locate
    \/ \E node \in Reachable(nodes, root) : Prune(node)
    \/ \E node \in Reachable(nodes, root) : Render(node)

Spec == Init /\ [][Next]_vars


\* ------------------------------------------------------- tree vocabulary
\* The pairs <<path, node>>: node is reached from r by the keys of path.
RECURSIVE PathPairsFrom(_, _, _)
PathPairsFrom(h, S, k) ==
    LET T == S \cup UNION {{<<Append(x[1], u), h[x[2]].children[u]>> :
                                u \in DOMAIN h[x[2]].children} : x \in S}
    IN IF T = S \/ k = 0 THEN S ELSE PathPairsFrom(h, T, k - 1)

PathPairs(h, r) == PathPairsFrom(h, {<<<<>>, r>>}, Len(h))

\* All prefixes, the empty one included, of a set of sequences.
Prefixes(S) == {<<>>} \cup UNION {{SubSeq(p, 1, k) : k \in 0..Len(p)} : p \in S}

MoveOf(uci) == CHOOSE m \in Moves : Uci(m) = uci

\* The position a sequence of moves reaches from the initial board.
RECURSIVE Replay(_, _)
Replay(board, path) ==
    IF path = <<>> THEN board
    ELSE Replay(Push(board, MoveOf(Head(path))), Tail(path))

NumChildren(h, n) == Cardinality(DOMAIN h[n].children)

IsLeaf(h, n) == DOMAIN h[n].children = {}

\* The entries <<holder, key>> of children mappings that hold node x.
Holders(h, x) ==
    {e \in (DOMAIN h) \X Ucis :
        e[2] \in DOMAIN h[e[1]].children /\ h[e[1]].children[e[2]] = x}

\* Following parent back-references from n for at most k steps ends at None.
RECURSIVE ParentChainEnds(_, _, _)
ParentChainEnds(h, n, k) ==
    IF n = None THEN TRUE
    ELSE IF k = 0 THEN FALSE
    ELSE ParentChainEnds(h, h[n].parent, k - 1)

\* ------------------------------------------------------------------ claims

\* C1: after ingesting games into a fresh root, the nodes reachable from the
\* root, named by the keys on their path, are exactly the distinct prefixes
\* of the ingested move sequences; every node has one path, and the node
\* count is the number of distinct prefixes.
MergeByPath ==
    phase = "build" =>
        LET pp == PathPairs(nodes, root)
        IN /\ {x[1] : x \in pp} = Prefixes(ingested)
           /\ \A x, y \in pp : x[2] = y[2] => x[1] = y[1]
           /\ {x[2] : x \in pp} = Reachable(nodes, root)
           /\ Cardinality(Reachable(nodes, root)) = Cardinality(Prefixes(ingested))

\* A game was merged into a tree it shares a prefix with, and added nodes.
MergeByPathWitness ==
    /\ last.op = "ingest"
    /\ Len(nodes) > Len(old)
    /\ \E p \in GamePaths(last.arg) :
          /\ p \in {x[1] : x \in PathPairs(old, root)}
          /\ \E q \in GamePaths(last.arg) :
                /\ Len(q) > Len(p)
                /\ SubSeq(q, 1, Len(p)) = p
                /\ q \notin {x[1] : x \in PathPairs(old, root)}

\* C2: the nodes reachable from the root form an acyclic rooted tree: every
\* reachable non-root node is held by exactly one children mapping, that of
\* the node its parent names, under the key of its own move, and no node is
\* its own ancestor.
RootedTree ==
    LET reach == Reachable(nodes, root)
    IN /\ nodes[root].parent = None
       /\ nodes[root].move = None
       /\ Holders(nodes, root) = {}
       /\ \A x \in reach \ {root} :
             /\ Holders(nodes, x) = {<<nodes[x].parent, Uci(nodes[x].move)>>}
             /\ nodes[x].parent \in reach
       /\ \A x \in reach :
             /\ x \notin Closure(nodes, Children(nodes, x))
             /\ ParentChainEnds(nodes, x, Len(nodes))

\* Pruning changed a tree, and nodes below the root remain.
RootedTreeWitness ==
    /\ last.op = "prune"
    /\ nodes # old
    /\ Cardinality(Reachable(nodes, root)) >= 3

\* C3: two ingested sequences that reach the same position by different
\* move paths have two distinct nodes with equal fen and different parents.
NoTranspositionMerge ==
    phase = "build" =>
        LET pp == PathPairs(nodes, root)
        IN \A p, q \in Prefixes(ingested) :
              (p # q /\ Fen(Replay(InitialBoard, p)) = Fen(Replay(InitialBoard, q))) =>
                 \E a, b \in Reachable(nodes, root) :
                    /\ <<p, a>> \in pp
                    /\ <<q, b>> \in pp
                    /\ a # b
                    /\ nodes[a].fen = nodes[b].fen
                    /\ nodes[a].fen = Fen(Replay(InitialBoard, p))
                    /\ nodes[a].parent # nodes[b].parent

\* Two ingested paths transpose into the same position.
NoTranspositionMergeWitness ==
    /\ phase = "build"
    /\ \E p, q \in ingested :
          p # q /\ Fen(Replay(InitialBoard, p)) = Fen(Replay(InitialBoard, q))

\* x is reached from r by a chain of nodes that each have exactly one child.
RECURSIVE SingleChildChain(_, _, _, _)
SingleChildChain(h, r, x, k) ==
    IF x = r THEN TRUE
    ELSE IF k = 0 \/ h[x].parent = None THEN FALSE
    ELSE /\ Children(h, h[x].parent) = {x}
         /\ SingleChildChain(h, r, h[x].parent, k - 1)

HasBranching(h, n) == \E y \in Reachable(h, n) : NumChildren(h, y) >= 2

\* C4: find_first_divergence_node(root) terminates and returns the first
\* node on the single-child chain from root that has 0 or >= 2 children:
\* root itself when root has 0 or >= 2 children, the terminal leaf when the
\* tree is one unbranched chain; every node before the result has exactly
\* one child, and the tree is not modified.
DivergenceResult ==
    last.op = "find" =>
        /\ ret \in Reachable(nodes, last.arg)
        /\ NumChildren(nodes, ret) # 1
        /\ SingleChildChain(nodes, last.arg, ret, Len(nodes))
        /\ NumChildren(nodes, last.arg) # 1 => ret = last.arg
        /\ ~HasBranching(nodes, last.arg) => IsLeaf(nodes, ret)
        /\ LET walk == DivergenceWalk(nodes, last.arg)
           IN /\ Len(walk) <= Cardinality(Reachable(nodes, last.arg))
              /\ \A i \in 1..(Len(walk) - 1) : NumChildren(nodes, walk[i]) = 1
        /\ nodes = old

\* The walk left the root and stopped at a node with two or more children.
DivergenceResultWitness ==
    /\ last.op = "find"
    /\ ret # last.arg
    /\ NumChildren(nodes, ret) >= 2

\* C5: prune_end_nodes is idempotent: after prune_end_nodes(n) a second
\* call changes no children mapping, because every node of the subtree of n
\* is a leaf, has >= 2 children, or has one child that itself has a child.
PruneIdempotent ==
    last.op = "prune" =>
        /\ prune_end_nodes(nodes, last.arg) = nodes
        /\ \A x \in Reachable(old, last.arg) :
              \/ IsLeaf(nodes, x)
              \/ NumChildren(nodes, x) >= 2
              \/ /\ NumChildren(nodes, x) = 1
                 /\ \A c \in Children(nodes, x) : ~IsLeaf(nodes, c)

\* A prune removed a tail and left a node with one child and a grandchild.
PruneIdempotentWitness ==
    /\ last.op = "prune"
    /\ nodes # old
    /\ \E x \in Reachable(nodes, last.arg) : NumChildren(nodes, x) = 1

\* C6: every node of the pruned subtree that has two or more children before
\* prune_end_nodes has the same children mapping after it, also when its
\* children collapsed to leaves.
PruneKeepsBranching ==
    last.op = "prune" =>
        \A x \in Reachable(old, last.arg) :
            NumChildren(old, x) >= 2 => nodes[x].children = old[x].children

\* A branching node kept its children while one of them collapsed to a leaf.
PruneKeepsBranchingWitness ==
    /\ last.op = "prune"
    /\ \E x \in Reachable(old, last.arg) :
          /\ NumChildren(old, x) >= 2
          /\ \E c \in Children(old, x) : ~IsLeaf(old, c) /\ IsLeaf(nodes, c)

IngestOnlyAdds ==
    last.op = "ingest" =>
        /\ PathPairs(old, root) \subseteq PathPairs(nodes, root)
        /\ \A x \in DOMAIN old :
              /\ x \in DOMAIN nodes
              /\ nodes[x].fen = old[x].fen
              /\ nodes[x].board = old[x].board
              /\ nodes[x].move = old[x].move
              /\ nodes[x].parent = old[x].parent
              /\ \A u \in DOMAIN old[x].children :
                    /\ u \in DOMAIN nodes[x].children
                    /\ nodes[x].children[u] = old[x].children[u]
        /\ root = 1
        /\ nodes[root].parent = None

\* A game was merged into a tree that already had moves, and added nodes.
IngestOnlyAddsWitness ==
    /\ last.op = "ingest"
    /\ Len(old) > 1
    /\ Len(nodes) > Len(old)

\* C9: one prune_end_nodes(r) collapses every linear tail completely: a node
\* x of the original subtree of r is still reachable from r iff x = r, or
\* the original parent of x has >= 2 children, or the original subtree of x
\* holds a node with >= 2 children; a child of a branching node whose
\* subtree was an unbranched chain ends as a leaf under that node.
PruneCollapsesTails ==
    last.op = "prune" =>
        /\ \A x \in Reachable(old, last.arg) :
              x \in Reachable(nodes, last.arg) <=>
                 \/ x = last.arg
                 \/ NumChildren(old, old[x].parent) >= 2
                 \/ HasBranching(old, x)
        /\ \A b \in Reachable(old, last.arg) :
              NumChildren(old, b) >= 2 =>
                 \A c \in Children(old, b) :
                    ~HasBranching(old, c) =>
                       /\ c \in Children(nodes, b)
                       /\ c \in Reachable(nodes, last.arg)
                       /\ IsLeaf(nodes, c)

\* A chain of two or more nodes below a child of a branching node was cut.
PruneCollapsesTailsWitness ==
    /\ last.op = "prune"
    /\ \E b \in Reachable(old, last.arg) :
          /\ NumChildren(old, b) >= 2
          /\ \E c \in Children(old, b) :
                /\ ~HasBranching(old, c)
                /\ Cardinality(Reachable(old, c)) >= 3
                /\ IsLeaf(nodes, c)

Range(f) == {f[i] : i \in DOMAIN f}

\* The nodes on the path from r down to x, both included.
RECURSIVE PathNodes(_, _, _, _)
PathNodes(h, r, x, k) ==
    IF x = r \/ k = 0 \/ h[x].parent = None THEN {x}
    ELSE {x} \cup PathNodes(h, r, h[x].parent, k - 1)

\* C10: the traversal of generate_tree_image skips a dequeued node whose fen
\* was already processed: no two expanded nodes share a fen, a reachable
\* node is left out exactly when a node on its path was skipped for a fen
\* already drawn, and only the edges of expanded nodes are drawn.
RenderDedupByFen ==
    last.op = "render" =>
        LET expanded == Range(ret.expanded)
            reach == Reachable(nodes, last.arg)
            Skipped(y) == /\ y \notin expanded
                          /\ \E z \in expanded : nodes[z].fen = nodes[y].fen
        IN /\ expanded \subseteq reach
           /\ Len(ret.expanded) = Cardinality(expanded)
           /\ \A a, b \in expanded : a # b => nodes[a].fen # nodes[b].fen
           /\ \A x \in reach :
                 x \notin expanded <=>
                    \E y \in PathNodes(nodes, last.arg, x, Len(nodes)) : Skipped(y)
           /\ ret.nodes = {nodes[x].fen : x \in expanded}
           /\ ret.edges = UNION {{<<nodes[x].fen, nodes[c].fen,
                                     San(nodes[x].board, nodes[c].move)>> :
                                   c \in Children(nodes, x)} : x \in expanded}

\* A transposed node was skipped and a node reachable only through it is
\* missing from the drawing.
RenderDedupByFenWitness ==
    /\ last.op = "render"
    /\ \E y \in Reachable(nodes, last.arg) \ Range(ret.expanded) :
          /\ \E z \in Range(ret.expanded) : nodes[z].fen = nodes[y].fen
          /\ \E c \in Children(nodes, y) :
                /\ c \notin Range(ret.expanded)
                /\ nodes[c].fen \notin ret.nodes

=============================================================================
